---- MODULE Spec2Model ----
(***************************************************************************)
(* Embedding store and similarity search of the campus placement AI        *)
(* service: src/ai-service/app/core/models.py and its callers.             *)
(*                                                                         *)
(* The process-wide globals _embedding_model and _faiss_index, the index   *)
(* file at settings.FAISS_INDEX_PATH and the callers of the module         *)
(* functions are the state.  Each caller executes one module function at   *)
(* a time, one statement (one access to shared state) per step; the        *)
(* functions take no lock.                                                 *)
(*                                                                         *)
(* Floating point values are fixed point numbers with ONE units per 1.0.   *)
(***************************************************************************)
EXTENDS Integers, Sequences, FiniteSets, TLC

VARIABLES
    embedding_model,  \* _embedding_model: 0 is None, else the instance
    chat_model,       \* _chat_model: 0 is None, else the pipeline
    faiss_index,      \* _faiss_index: 0 is None, else a reference into heap
    heap,             \* the faiss index objects alive in the process
    file,             \* the index file at settings.FAISS_INDEX_PATH
    modelLoadable,    \* environment: SentenceTransformer(...) can be built
    callers,          \* the workers that call into the module
    call,             \* per caller: the running function and its locals
    loads,            \* models constructed since start / last cleanup
    installs,         \* index objects installed since start / last cleanup
    creates,          \* index files written by the create branch since then
    rec               \* the recommendations request being served, if any

vars == <<embedding_model, chat_model, faiss_index, heap, file, modelLoadable,
          callers, call, loads, installs, creates, rec>>

-----------------------------------------------------------------------------
(* Bounds of the model *)

\* the largest number of vectors an insert may be started on
MaxN == 3
\* the largest k a search is called with
MaxK == 3
\* the same two bounds while two workers run concurrently
MaxRaceN == 1
MaxRaceK == 1
\* the largest limit of a recommendations request
MaxLimit == 5
\* GET /recommendations takes any int as limit: how far below zero it goes
MaxBelowZero == 2
\* the largest limit of a similar jobs request
MaxSimilar == 4

-----------------------------------------------------------------------------
(* Numbers and vectors *)

\* fixed point unit: the integer that stands for the float 1.0
ONE == 1000

\* faiss pads missing results with label -1 and the lowest float
NoSlot == -1
NeutralScore == -340282346


\* models.py:94, dimension used when the embedding model is unavailable
DefaultDim == 384

RECURSIVE IsqrtIter(_, _, _)
IsqrtIter(n, lo, hi) ==
    IF lo >= hi THEN lo
    ELSE LET mid == (lo + hi + 1) \div 2
         IN  IF mid * mid <= n THEN IsqrtIter(n, mid, hi)
             ELSE IsqrtIter(n, lo, mid - 1)

\* floor of the square root
Isqrt(n) == IsqrtIter(n, 0, 4 * ONE)

RECURSIVE SumSeq(_)
SumSeq(s) == IF s = <<>> THEN 0 ELSE Head(s) + SumSeq(Tail(s))

\* squared L2 norm, in units of ONE * ONE
NormSqr(v) == SumSeq([i \in 1..Len(v) |-> v[i] * v[i]])

\* division rounding to nearest, as a float multiply by 1/norm would
DivRound(a, b) ==
    IF a >= 0 THEN (2 * a + b) \div (2 * b)
    ELSE 0 - ((2 * (0 - a) + b) \div (2 * b))

Min(a, b) == IF a <= b THEN a ELSE b

\* (a normalisation that was left out)
NormalizeMissing(v) == v

\* faiss.normalize_L2 on one row: scaled by 1/norm, a zero row is left as is
NormalizeRow(v) ==
    LET norm == Isqrt(NormSqr(v))
    IN  IF norm = 0 THEN v
        ELSE [i \in 1..Len(v) |-> DivRound(v[i] * ONE, norm)]

\* (a normalize_L2 that is not called)
NormalizeL2Skipped(arr) == arr

\* faiss.normalize_L2 on a 2-D array, in place
NormalizeL2(arr) == [i \in 1..Len(arr) |-> NormalizeRow(arr[i])]

\* inner product of two rows of equal length (METRIC_INNER_PRODUCT)
InnerProduct(u, v) ==
    DivRound(SumSeq([i \in 1..Len(u) |-> u[i] * v[i]]), ONE)

-----------------------------------------------------------------------------
(* IndexFlatIP.search for one query: exhaustive scan into a k-heap *)

\* order of the result heap: by score, then by label
Below(a, b) == a[2] < b[2] \/ (a[2] = b[2] /\ a[1] < b[1])

\* insert pair p into a sequence kept descending by (score, label)
RECURSIVE InsertDesc(_, _)
InsertDesc(s, p) ==
    IF s = <<>> THEN <<p>>
    ELSE IF Below(Head(s), p) THEN <<p>> \o s
         ELSE <<Head(s)>> \o InsertDesc(Tail(s), p)

\* the heap's smallest entry is replaced when the new score is strictly higher
AddResult(res, slot, score) ==
    IF score > res[Len(res)][2]
    THEN InsertDesc(SubSeq(res, 1, Len(res) - 1), <<slot, score>>)
    ELSE res

RECURSIVE Scan(_, _, _, _, _)
Scan(codes, n, q, i, res) ==
    IF i > n THEN res
    ELSE Scan(codes, n, q, i + 1,
              AddResult(res, i - 1, InnerProduct(q, codes[i])))

\* result of index.search(q, k): k (slot, score) pairs, best first, padded with
\* (-1, lowest float) when fewer than k vectors are stored
FaissSearch(codes, n, q, k) ==
    Scan(codes, n, q, 1, [j \in 1..k |-> <<NoSlot, NeutralScore>>])

-----------------------------------------------------------------------------
(* Inputs the callers draw from *)

E1 == <<ONE, 0, 0>>
E2 == <<0, ONE, 0>>
E3 == <<0, 0, ONE>>
Diag == <<2 * ONE, 2 * ONE, 0>>
Zero == <<0, 0, 0>>
Short == <<ONE, 0>>

\* arrays handed to add_to_faiss_index by a single caller
TestBatches ==
    {<<E1>>, <<E2>>, <<E3>>, <<Diag>>, <<Zero>>, <<E1, E2>>, <<Short>>}

\* query vectors handed to search_similar by a single caller
TestQueries == {E1, E2, Diag, Zero, Short}

\* inputs used when two workers run concurrently
RaceBatches == {<<E1>>}
RaceQueries == {E1}

\* texts of a /embeddings/store request and the vectors the model encodes
\* them to
Texts == {"python", "react"}

\* the texts similar_jobs.py:96 and 137 format from the jobs of MOCK_JOBS_DB
JobText1 == "Software Developer Intern Full-stack development internship with React and Node.js javascript react node.js mongodb"
JobText2 == "Frontend Developer Frontend development role focusing on React and modern web technologies javascript react html css"
JobText3 == "Backend Developer Backend API development using Python and Django python django postgresql aws"
JobText4 == "Full Stack Developer Full-stack development with modern technologies javascript react node.js python mongodb"
JobText5 == "React Developer React development for web applications javascript react redux typescript"

\* embedding_model.encode on one text: the same text gives the same vector
Encode(text) ==
    CASE text = "python" -> Diag
      [] text = JobText1 -> <<ONE, ONE, 0>>
      [] text = JobText2 -> <<ONE, 0, 0>>
      [] text = JobText3 -> <<0, 0, ONE>>
      [] text = JobText4 -> <<2 * ONE, 2 * ONE, 0>>
      [] text = JobText5 -> <<0, ONE, 0>>
      [] OTHER -> E2
TestTexts == {<<"python">>, <<"react", "python">>}
RaceTexts == {<<"python">>}

\* (an encode that gives up after the first text)
EncodeAllPartial(texts) == <<Encode(texts[1])>>

\* embedding_model.encode(texts): one row per text
EncodeAll(texts) == [i \in 1..Len(texts) |-> Encode(texts[i])]

\* models.py:89-90, the dimension of a dummy embedding: len(dummy_embedding[0])
ModelDim == Len(Encode("dummy"))

-----------------------------------------------------------------------------
(* Index objects, the index file, caller frames *)

NoObj == [live |-> FALSE, d |-> 0, ntotal |-> 0, codes |-> <<>>]
NoFile == [exists |-> FALSE, d |-> 0, ntotal |-> 0, codes |-> <<>>]

\* faiss.IndexFlatIP(dimension)
IndexFlatIP(dimension) ==
    [live |-> TRUE, d |-> dimension, ntotal |-> 0, codes |-> <<>>]

\* (a read that builds the index with the default dimension)
ReadIndexDefaultDim(f) ==
    [live |-> TRUE, d |-> DefaultDim, ntotal |-> 0, codes |-> <<>>]

\* (a read that finds the dimension and none of the vectors)
ReadIndexEmpty(f) ==
    [live |-> TRUE, d |-> f.d, ntotal |-> 0, codes |-> <<>>]

\* faiss.read_index(path)
ReadIndex(f) ==
    [live |-> TRUE, d |-> f.d, ntotal |-> f.ntotal, codes |-> f.codes]

\* (a write that misses the last stored vector)
WriteIndexShort(o) ==
    LET n == IF o.ntotal = 0 THEN 0 ELSE o.ntotal - 1
    IN  [exists |-> TRUE, d |-> o.d, ntotal |-> n,
         codes |-> SubSeq(o.codes, 1, n)]

\* faiss.write_index(index, path): the whole index replaces the file
WriteIndex(o) ==
    [exists |-> TRUE, d |-> o.d, ntotal |-> o.ntotal, codes |-> o.codes]

NoResult == [status |-> "pending", pairs |-> <<>>]
NoPrev == [kind |-> "none", status |-> "none", pairs |-> <<>>, slot |-> 0]
NoPre == [idx |-> 0, n |-> 0, d |-> 0, codes |-> <<>>, file |-> NoFile]

Idle ==
    [op |-> "idle", pc |-> "idle", ret |-> <<>>,
     texts |-> <<>>, arg |-> <<>>, arr |-> <<>>, k |-> 0,
     idx |-> 0, em |-> 0, n0 |-> 0, torn |-> FALSE,
     jobId |-> "", i |-> 0, ref |-> <<>>, out |-> <<>>, found |-> <<>>,
     skipped |-> {},
     res |-> NoResult, pre |-> NoPre, prev |-> NoPrev]

\* references to index objects held by the global or by a running caller
Refs(g, c) == {g} \cup {c[t].idx : t \in DOMAIN c}

\* objects nobody refers to any more are freed
Collect(h, g, c) ==
    [i \in DOMAIN h |-> IF i \in Refs(g, c) THEN h[i] ELSE NoObj]

NewRef(h) == CHOOSE i \in DOMAIN h : ~h[i].live /\ \A j \in 1..(i - 1) : h[j].live

\* number of vectors of the process-wide index, as a caller can see it
MemCount == IF faiss_index = 0 THEN 0 ELSE heap[faiss_index].ntotal

\* what an insert would start from: the loaded index, else the file
StartCount == IF faiss_index # 0 THEN heap[faiss_index].ntotal ELSE file.ntotal

\* the state a call starts from, for its contract; with a second worker
\* running there is no such state and nothing is recorded
Snapshot ==
    IF Cardinality(callers) = 1
    THEN [idx |-> faiss_index, n |-> MemCount,
          d |-> IF faiss_index = 0 THEN 0 ELSE heap[faiss_index].d,
          codes |-> IF faiss_index = 0 THEN <<>> ELSE heap[faiss_index].codes,
          file |-> file]
    ELSE NoPre

\* a function returns: control goes back to the caller's continuation; the
\* locals die with the outermost frame
Return(c, status, pairs) ==
    LET top == Head(c.ret) = "done"
    IN  [c EXCEPT !.pc = Head(c.ret), !.ret = Tail(c.ret),
                  !.res = [status |-> status, pairs |-> pairs],
                  !.idx = IF top THEN 0 ELSE c.idx,
                  !.em = IF top THEN 0 ELSE c.em]

\* get_embedding_model / get_faiss_index return a value into a local
ReturnEm(c, m) == [c EXCEPT !.pc = Head(c.ret), !.ret = Tail(c.ret), !.em = m]
ReturnIdx(c, i) == [c EXCEPT !.pc = Head(c.ret), !.ret = Tail(c.ret), !.idx = i]

\* call a function: jump to its first statement, remember the continuation
Invoke(c, entry, cont) == [c EXCEPT !.pc = entry, !.ret = <<cont>> \o c.ret]

\* a caller of models.py moves on; no recommendations request is touched
Step(t, c) == call' = [call EXCEPT ![t] = c] /\ UNCHANGED <<rec, chat_model>>

-----------------------------------------------------------------------------
(* get_embedding_model, models.py:18-34 *)

\* line 22: if _embedding_model is None
GemCheck(t) ==
    /\ call[t].pc = "gem22"
    /\ Step(t, [call[t] EXCEPT !.pc =
                    IF embedding_model = 0 THEN "gem25" ELSE "gem34"])
    /\ UNCHANGED <<embedding_model, faiss_index, heap, file, modelLoadable,
                   callers, loads, installs, creates>>

\* (a load whose failure is remembered in the global)
GemLoadRemembersFailure(t) ==
    /\ call[t].pc = "gem25"
    /\ IF modelLoadable
       THEN /\ embedding_model' = loads + 1
            /\ loads' = loads + 1
            /\ Step(t, [call[t] EXCEPT !.pc = "gem34"])
       ELSE /\ Step(t, ReturnEm(call[t], 0))
            /\ embedding_model' = -1
            /\ UNCHANGED loads
    /\ UNCHANGED <<faiss_index, heap, file, modelLoadable, callers,
                   installs, creates>>

\* lines 25-32: construct the SentenceTransformer and store it in the global;
\* a failed construction is caught and None is returned
GemLoad(t) ==
    /\ call[t].pc = "gem25"
    /\ IF modelLoadable
       THEN /\ embedding_model' = loads + 1
            /\ loads' = loads + 1
            /\ Step(t, [call[t] EXCEPT !.pc = "gem34"])
       ELSE /\ Step(t, ReturnEm(call[t], 0))
            /\ UNCHANGED <<embedding_model, loads>>
    /\ UNCHANGED <<faiss_index, heap, file, modelLoadable, callers,
                   installs, creates>>

\* line 34: return _embedding_model
GemReturn(t) ==
    /\ call[t].pc = "gem34"
    /\ Step(t, ReturnEm(call[t], embedding_model))
    /\ UNCHANGED <<embedding_model, faiss_index, heap, file, modelLoadable,
                   callers, loads, installs, creates>>

-----------------------------------------------------------------------------
(* get_faiss_index, models.py:74-106 *)

\* line 78: if _faiss_index is None
GfiCheck(t) ==
    /\ call[t].pc = "gfi78"
    /\ Step(t, [call[t] EXCEPT !.pc =
                    IF faiss_index = 0 THEN "gfi80" ELSE "gfi106"])
    /\ UNCHANGED <<embedding_model, faiss_index, heap, file, modelLoadable,
                   callers, loads, installs, creates>>

\* line 80: if os.path.exists(settings.FAISS_INDEX_PATH)
GfiExists(t) ==
    /\ call[t].pc = "gfi80"
    /\ Step(t, [call[t] EXCEPT !.pc =
                    IF file.exists THEN "gfi82" ELSE "gfi86"])
    /\ UNCHANGED <<embedding_model, faiss_index, heap, file, modelLoadable,
                   callers, loads, installs, creates>>

\* line 82: _faiss_index = faiss.read_index(path)
GfiRead(t) ==
    /\ call[t].pc = "gfi82"
    /\ LET r == NewRef(heap)
           c == [call[t] EXCEPT !.pc = "gfi106"]
       IN  /\ faiss_index' = r
           /\ Step(t, c)
           /\ heap' = Collect([heap EXCEPT ![r] = ReadIndex(file)], r, call')
    /\ installs' = installs + 1
    /\ UNCHANGED <<embedding_model, file, modelLoadable, callers, loads,
                   creates>>

\* line 86: embedding_model = get_embedding_model()
GfiGetModel(t) ==
    /\ call[t].pc = "gfi86"
    /\ Step(t, Invoke(call[t], "gem22", "gfi87"))
    /\ UNCHANGED <<embedding_model, faiss_index, heap, file, modelLoadable,
                   callers, loads, installs, creates>>

\* lines 87-95: the dimension of a dummy embedding, or 384 without a model;
\* _faiss_index = faiss.IndexFlatIP(dimension).  encode may raise, which
\* line 102 catches
GfiCreate(t) ==
    /\ call[t].pc = "gfi87"
    /\ \E encoded \in BOOLEAN :
          IF call[t].em # 0 /\ ~encoded
          THEN /\ Step(t, ReturnIdx(call[t], 0))
               /\ UNCHANGED <<faiss_index, heap, installs>>
          ELSE LET r == NewRef(heap)
                   dimension == IF call[t].em # 0 THEN ModelDim ELSE DefaultDim
               IN  /\ encoded
                   /\ faiss_index' = r
                   /\ Step(t, [call[t] EXCEPT !.pc = "gfi98"])
                   /\ heap' = Collect([heap EXCEPT ![r] = IndexFlatIP(dimension)],
                                      r, call')
                   /\ installs' = installs + 1
    /\ UNCHANGED <<embedding_model, file, modelLoadable, callers, loads,
                   creates>>

\* (a create branch that returns the index although its write failed)
GfiWriteIgnored(t) ==
    /\ call[t].pc = "gfi98"
    /\ \E written \in BOOLEAN :
          IF written /\ faiss_index # 0
          THEN /\ file' = WriteIndex(heap[faiss_index])
               /\ creates' = creates + 1
               /\ Step(t, [call[t] EXCEPT !.pc = "gfi106"])
          ELSE /\ ~written
               /\ Step(t, [call[t] EXCEPT !.pc = "gfi106"])
               /\ UNCHANGED <<file, creates>>
    /\ UNCHANGED <<embedding_model, faiss_index, heap, modelLoadable, callers,
                   loads, installs>>

\* lines 98-99: faiss.write_index(_faiss_index, path); a failed write (or a
\* global reset to None meanwhile) raises, line 102 catches, None is returned
GfiWrite(t) ==
    /\ call[t].pc = "gfi98"
    /\ \E written \in BOOLEAN :
          IF written /\ faiss_index # 0
          THEN /\ file' = WriteIndex(heap[faiss_index])
               /\ creates' = creates + 1
               /\ Step(t, [call[t] EXCEPT !.pc = "gfi106"])
          ELSE /\ ~written
               /\ Step(t, ReturnIdx(call[t], 0))
               /\ UNCHANGED <<file, creates>>
    /\ UNCHANGED <<embedding_model, faiss_index, heap, modelLoadable, callers,
                   loads, installs>>

\* line 106: return _faiss_index
GfiReturn(t) ==
    /\ call[t].pc = "gfi106"
    /\ Step(t, ReturnIdx(call[t], faiss_index))
    /\ UNCHANGED <<embedding_model, faiss_index, heap, file, modelLoadable,
                   callers, loads, installs, creates>>

-----------------------------------------------------------------------------
(* generate_embeddings, models.py:108-119 *)

\* line 111: embedding_model = get_embedding_model()
GenGetModel(t) ==
    /\ call[t].pc = "gen111"
    /\ Step(t, Invoke(call[t], "gem22", "gen112"))
    /\ UNCHANGED <<embedding_model, faiss_index, heap, file, modelLoadable,
                   callers, loads, installs, creates>>

\* lines 112-119: None without a model; else encode(texts), whose exception
\* is caught and turned into None
GenEncode(t) ==
    /\ call[t].pc = "gen112"
    /\ \E encoded \in BOOLEAN :
          IF call[t].em # 0 /\ encoded
          THEN Step(t, Return([call[t] EXCEPT !.arr = EncodeAll(call[t].texts),
                                              !.arg = EncodeAll(call[t].texts)],
                              "Array", <<>>))
          ELSE /\ ~encoded
               /\ Step(t, Return(call[t], "None", <<>>))
    /\ UNCHANGED <<embedding_model, faiss_index, heap, file, modelLoadable,
                   callers, loads, installs, creates>>

-----------------------------------------------------------------------------
(* add_to_faiss_index, models.py:121-141 *)

\* line 124: faiss_index = get_faiss_index()
AddGetIndex(t) ==
    /\ call[t].pc = "add124"
    /\ Step(t, Invoke(call[t], "gfi78", "add125"))
    /\ UNCHANGED <<embedding_model, faiss_index, heap, file, modelLoadable,
                   callers, loads, installs, creates>>

\* lines 125-129: return False without an index, else
\* faiss.normalize_L2(embeddings), in place
AddNormalize(t) ==
    /\ call[t].pc = "add125"
    /\ IF call[t].idx = 0
       THEN /\ Step(t, Return(call[t], "False", <<>>))
            /\ heap' = Collect(heap, faiss_index, call')
       ELSE /\ Step(t, [call[t] EXCEPT !.arr = NormalizeL2(call[t].arr),
                                       !.pc = "add132"])
            /\ UNCHANGED heap
    /\ UNCHANGED <<embedding_model, faiss_index, file, modelLoadable,
                   callers, loads, installs, creates>>

\* (an add that takes rows of any dimension)
DimensionUnchecked(o, arr) == TRUE

\* the faiss wrapper's check on the array handed to add: assert d == self.d
DimensionOk(o, arr) == \A i \in 1..Len(arr) : Len(arr[i]) = o.d

\* line 132, first half of faiss_index.add: the wrapper asserts the array's
\* second dimension equals index.d (AssertionError, caught at line 139), then
\* the index reads ntotal to find where the batch goes
AddBegin(t) ==
    /\ call[t].pc = "add132"
    /\ LET o == heap[call[t].idx]
       IN  IF ~DimensionOk(o, call[t].arr)
           THEN /\ Step(t, Return(call[t], "False", <<>>))
                /\ heap' = Collect(heap, faiss_index, call')
           ELSE /\ Step(t, [call[t] EXCEPT !.n0 = o.ntotal, !.pc = "add132w"])
                /\ UNCHANGED heap
    /\ UNCHANGED <<embedding_model, faiss_index, file, modelLoadable,
                   callers, loads, installs, creates>>

\* (a resize that clears what was stored)
ResizedCleared(o, n) == [i \in 1..n |-> [j \in 1..o.d |-> 0]]

\* codes.resize keeps what is stored and fills new room with zero bytes
Resized(o, n) ==
    [i \in 1..n |-> IF i <= Len(o.codes) THEN o.codes[i]
                    ELSE [j \in 1..o.d |-> 0]]

\* (an add that stores nothing)
IndexAddNothing(o, n0, arr) == o

\* the batch goes behind the n0 stored vectors
IndexAdd(o, n0, arr) ==
    [o EXCEPT !.codes = Resized(o, n0) \o arr,
              !.ntotal = n0 + Len(arr)]

\* line 132, faiss_index.add makes room: codes.resize((ntotal + n) * code_size).
\* faiss runs outside the interpreter lock and takes no lock of its own, so
\* the writes of add reach another thread in no particular order: the new
\* ntotal may be visible to it before the rows are
AddGrow(t) ==
    /\ call[t].pc = "add132w"
    /\ LET o == heap[call[t].idx]
           n == call[t].n0 + Len(call[t].arr)
       IN  \E early \in BOOLEAN :
              heap' = [heap EXCEPT ![call[t].idx] =
                          [o EXCEPT !.codes = Resized(o, n),
                                    !.ntotal = IF early THEN n ELSE o.ntotal]]
    /\ Step(t, [call[t] EXCEPT !.pc = "add132c"])
    /\ UNCHANGED <<embedding_model, faiss_index, file, modelLoadable,
                   callers, loads, installs, creates>>

\* line 132, faiss_index.add completes: the batch is copied to slots
\* n0 .. n0+b-1 and ntotal is n0 + b
AddStore(t) ==
    /\ call[t].pc = "add132c"
    /\ heap' = [heap EXCEPT ![call[t].idx] =
                    IndexAdd(heap[call[t].idx], call[t].n0, call[t].arr)]
    /\ Step(t, [call[t] EXCEPT !.pc = "add135"])
    /\ UNCHANGED <<embedding_model, faiss_index, file, modelLoadable,
                   callers, loads, installs, creates>>

\* lines 135-141: faiss.write_index(faiss_index, path), then True; a failed
\* write raises and False is returned
AddWrite(t) ==
    /\ call[t].pc = "add135"
    /\ \E written \in BOOLEAN :
          IF written
          THEN /\ file' = WriteIndex(heap[call[t].idx])
               /\ Step(t, Return(call[t], "True", <<>>))
          ELSE /\ Step(t, Return(call[t], "False", <<>>))
               /\ UNCHANGED file
    /\ heap' = Collect(heap, faiss_index, call')
    /\ UNCHANGED <<embedding_model, faiss_index, modelLoadable,
                   callers, loads, installs, creates>>

-----------------------------------------------------------------------------
(* search_similar, models.py:143-159 *)

\* line 146: faiss_index = get_faiss_index()
SearchGetIndex(t) ==
    /\ call[t].pc = "s146"
    /\ Step(t, Invoke(call[t], "gfi78", "s147"))
    /\ UNCHANGED <<embedding_model, faiss_index, heap, file, modelLoadable,
                   callers, loads, installs, creates>>

\* lines 147-151: (None, None) without an index, else
\* faiss.normalize_L2(query_embedding.reshape(1, -1)), in place on the view
SearchNormalize(t) ==
    /\ call[t].pc = "s147"
    /\ IF call[t].idx = 0
       THEN /\ Step(t, Return(call[t], "None", <<>>))
            /\ heap' = Collect(heap, faiss_index, call')
       ELSE /\ Step(t, [call[t] EXCEPT !.arr = NormalizeL2(call[t].arr),
                                       !.pc = "s154"])
            /\ UNCHANGED heap
    /\ UNCHANGED <<embedding_model, faiss_index, file, modelLoadable,
                   callers, loads, installs, creates>>

\* the index this caller holds counts slots that an add of another caller
\* has made room for and not yet written
Unwritten(t) ==
    \E u \in callers :
        /\ u # t
        /\ call[u].pc = "add132c"
        /\ call[u].idx = call[t].idx
        /\ heap[call[t].idx].ntotal > call[u].n0

\* lines 154-159: scores, indices = faiss_index.search(query, k); the wrapper
\* asserts the query's dimension equals index.d (caught: (None, None));
\* scores[0], indices[0] are returned as they come from faiss
SearchRun(t) ==
    /\ call[t].pc = "s154"
    /\ LET o == heap[call[t].idx]
           q == call[t].arr[1]
       IN  IF Len(q) # o.d
           THEN Step(t, Return(call[t], "None", <<>>))
           ELSE Step(t, Return([call[t] EXCEPT !.torn = Unwritten(t)],
                               "Pairs",
                               FaissSearch(o.codes, o.ntotal, q, call[t].k)))
    /\ heap' = Collect(heap, faiss_index, call')
    /\ UNCHANGED <<embedding_model, faiss_index, file, modelLoadable,
                   callers, loads, installs, creates>>

-----------------------------------------------------------------------------
(* generate_text_embeddings and generate_batch_embeddings,                 *)
(* embeddings.py:27-89: one text or a list of texts, the same statements   *)

\* lines 34, 66: embeddings_array = generate_embeddings(texts)
EmbGenerate(t) ==
    /\ call[t].pc = "emb34"
    /\ Step(t, Invoke(call[t], "gen111", "emb36"))
    /\ UNCHANGED <<embedding_model, faiss_index, heap, file, modelLoadable,
                   callers, loads, installs, creates>>

\* lines 36-49, 68-81: 503 when no embeddings came back, else the vectors
EmbReply(t) ==
    /\ call[t].pc = "emb36"
    /\ IF call[t].res.status = "None"
       THEN Step(t, Return(call[t], "503", <<>>))
       ELSE Step(t, Return(call[t], "Embeddings", <<>>))
    /\ UNCHANGED <<embedding_model, faiss_index, heap, file, modelLoadable,
                   callers, loads, installs, creates>>

-----------------------------------------------------------------------------
(* store_embeddings, embeddings.py:91-127 *)

\* line 98: embeddings_array = generate_embeddings(request.texts)
StoreGenerate(t) ==
    /\ call[t].pc = "store98"
    /\ Step(t, Invoke(call[t], "gen111", "store100"))
    /\ UNCHANGED <<embedding_model, faiss_index, heap, file, modelLoadable,
                   callers, loads, installs, creates>>

\* lines 100-107: 503 when no embeddings came back, else
\* success = add_to_faiss_index(embeddings_array)
StoreAdd(t) ==
    /\ call[t].pc = "store100"
    /\ IF call[t].res.status = "None"
       THEN Step(t, Return(call[t], "503", <<>>))
       ELSE Step(t, Invoke(call[t], "add124", "store109"))
    /\ UNCHANGED <<embedding_model, faiss_index, heap, file, modelLoadable,
                   callers, loads, installs, creates>>

\* lines 109-119: 503 when the insert reported False, else the success body
StoreReply(t) ==
    /\ call[t].pc = "store109"
    /\ IF call[t].res.status = "True"
       THEN Step(t, Return(call[t], "Stored", <<>>))
       ELSE Step(t, Return(call[t], "503", <<>>))
    /\ heap' = Collect(heap, faiss_index, call')
    /\ UNCHANGED <<embedding_model, faiss_index, file, modelLoadable,
                   callers, loads, installs, creates>>

-----------------------------------------------------------------------------
(* cleanup_models, models.py:236-248 *)

\* what a cleanup leaves in the caller's record: whether a chat model was
\* loaded, and the number of vectors that were in the loaded index and not in
\* the file
Dropped(t) ==
    [kind |-> "cleanup",
     status |-> IF chat_model # 0 THEN "chat" ELSE call[t].prev.status,
     pairs |-> <<>>,
     slot |-> IF faiss_index # 0 THEN MemCount - file.ntotal
              ELSE call[t].prev.slot]

\* (a cleanup that forgets the chat model)
cleanup_keeps_chat(t) ==
    /\ call[t].pc = "idle"
    /\ embedding_model # 0 \/ chat_model # 0 \/ faiss_index # 0
    /\ embedding_model' = 0
    /\ faiss_index' = 0
    /\ heap' = Collect(heap, 0, call)
    /\ loads' = 0
    /\ installs' = 0
    /\ creates' = 0
    /\ call' = IF Cardinality(callers) = 1
               THEN [call EXCEPT ![t].prev = Dropped(t)] ELSE call
    /\ UNCHANGED <<chat_model, file, modelLoadable, callers, rec>>

cleanup_models(t) ==
    /\ call[t].pc = "idle"
    /\ embedding_model # 0 \/ chat_model # 0 \/ faiss_index # 0
    /\ embedding_model' = 0
    /\ chat_model' = 0
    /\ faiss_index' = 0
    /\ heap' = Collect(heap, 0, call)
    /\ loads' = 0
    /\ installs' = 0
    /\ creates' = 0
    /\ call' = IF Cardinality(callers) = 1
               THEN [call EXCEPT ![t].prev = Dropped(t)] ELSE call
    /\ UNCHANGED <<file, modelLoadable, callers, rec>>

-----------------------------------------------------------------------------
(* get_chat_model, models.py:36-72 *)

\* the chat model is built and cached; a load that raises returns None and
\* changes nothing
get_chat_model(t) ==
    /\ call[t].pc = "idle"
    /\ chat_model = 0
    /\ chat_model' = 1
    /\ UNCHANGED <<embedding_model, faiss_index, heap, file, modelLoadable,
                   callers, call, loads, installs, creates, rec>>

-----------------------------------------------------------------------------
(* The callers and the environment *)

\* no recommendations request is being served
NoRec == [stage |-> "none"]

Single == Cardinality(callers) = 1
Batches == IF Single THEN TestBatches ELSE RaceBatches
Queries == IF Single THEN TestQueries ELSE RaceQueries
TextBatches == IF Single THEN TestTexts ELSE RaceTexts
Capacity == IF Single THEN MaxN ELSE MaxRaceN
Ks == 1..(IF Single THEN MaxK ELSE MaxRaceK)

Begin(op, entry) ==
    [Idle EXCEPT !.op = op, !.pc = entry, !.ret = <<"done">>, !.pre = Snapshot]

\* a caller invokes add_to_faiss_index(embeddings)
StartAdd(t) ==
    /\ call[t].pc = "idle"
    /\ \E b \in Batches :
          /\ StartCount + Len(b) <= Capacity
          /\ Step(t, [Begin("add", "add124") EXCEPT
                          !.arg = b, !.arr = b, !.prev = call[t].prev])
    /\ UNCHANGED <<embedding_model, faiss_index, heap, file, modelLoadable,
                   callers, loads, installs, creates>>

\* a caller invokes search_similar(query_embedding, k)
StartSearch(t) ==
    /\ call[t].pc = "idle"
    /\ \E q \in Queries, k \in Ks :
          Step(t, [Begin("search", "s146") EXCEPT
                       !.arg = <<q>>, !.arr = <<q>>, !.k = k,
                       !.prev = call[t].prev])
    /\ UNCHANGED <<embedding_model, faiss_index, heap, file, modelLoadable,
                   callers, loads, installs, creates>>

\* a POST /embeddings or /embeddings/batch request arrives
StartEmbed(t) ==
    /\ call[t].pc = "idle"
    /\ \E x \in TextBatches :
          Step(t, [Begin("embed", "emb34") EXCEPT !.texts = x])
    /\ UNCHANGED <<embedding_model, faiss_index, heap, file, modelLoadable,
                   callers, loads, installs, creates>>

\* a POST /embeddings/store request arrives
StartStore(t) ==
    /\ call[t].pc = "idle"
    /\ \E x \in TextBatches :
          /\ StartCount + Len(x) <= Capacity
          /\ Step(t, [Begin("store", "store98") EXCEPT !.texts = x])
    /\ UNCHANGED <<embedding_model, faiss_index, heap, file, modelLoadable,
                   callers, loads, installs, creates>>

\* the caller has its result and is free for the next call
Finish(t) ==
    /\ call[t].pc = "done"
    /\ Step(t, Idle)
    /\ UNCHANGED <<embedding_model, faiss_index, heap, file, modelLoadable,
                   callers, loads, installs, creates>>

\* the caller repeats the search it just made, same query values, same k
SearchAgain(t) ==
    /\ call[t].pc = "done"
    /\ call[t].op = "search"
    /\ call[t].prev.kind = "none"
    /\ Step(t, [Begin("search", "s146") EXCEPT
                    !.arg = call[t].arg, !.arr = call[t].arg, !.k = call[t].k,
                    !.prev = [kind |-> "search", status |-> call[t].res.status,
                              pairs |-> call[t].res.pairs, slot |-> 0]])
    /\ UNCHANGED <<embedding_model, faiss_index, heap, file, modelLoadable,
                   callers, loads, installs, creates>>

\* the caller searches for a vector of the batch it just inserted
SearchInserted(t) ==
    /\ call[t].pc = "done"
    /\ call[t].op = "add"
    /\ call[t].res.status = "True"
    /\ \E i \in 1..Len(call[t].arg), k \in Ks :
          Step(t, [Begin("search", "s146") EXCEPT
                       !.arg = <<call[t].arg[i]>>, !.arr = <<call[t].arg[i]>>,
                       !.k = k,
                       !.prev = [kind |-> "add", status |-> "True",
                                 pairs |-> <<>>,
                                 slot |-> call[t].n0 + i - 1]])
    /\ UNCHANGED <<embedding_model, faiss_index, heap, file, modelLoadable,
                   callers, loads, installs, creates>>

\* the client of /embeddings repeats a request that was answered 503
EmbedAgain(t) ==
    /\ call[t].pc = "done"
    /\ call[t].op = "embed"
    /\ call[t].res.status = "503"
    /\ call[t].prev.kind = "none"
    /\ Step(t, [Begin("embed", "emb34") EXCEPT
                    !.texts = call[t].texts,
                    !.prev = [kind |-> "embed",
                              status |-> IF embedding_model = 0
                                         THEN "LoadFailed" ELSE "503",
                              pairs |-> <<>>, slot |-> 0]])
    /\ UNCHANGED <<embedding_model, faiss_index, heap, file, modelLoadable,
                   callers, loads, installs, creates>>

\* the model files or the network come and go
EnvModel ==
    /\ modelLoadable' = ~modelLoadable
    /\ UNCHANGED <<embedding_model, chat_model, faiss_index, heap, file,
                   callers, call, loads, installs, creates, rec>>

-----------------------------------------------------------------------------
(* Recommendations, recommendations.py: strings that are searched are       *)
(* sequences of characters, an Optional value is a record with a flag       *)

Absent(v) == [some |-> FALSE, val |-> v]
Some(v) == [some |-> TRUE, val |-> v]

UpperCase ==
    <<"A", "B", "C", "D", "E", "F", "G", "H", "I", "J", "K", "L", "M",
      "N", "O", "P", "Q", "R", "S", "T", "U", "V", "W", "X", "Y", "Z">>
LowerCase ==
    <<"a", "b", "c", "d", "e", "f", "g", "h", "i", "j", "k", "l", "m",
      "n", "o", "p", "q", "r", "s", "t", "u", "v", "w", "x", "y", "z">>

LowerChar(c) ==
    IF \E i \in 1..26 : UpperCase[i] = c
    THEN LowerCase[CHOOSE i \in 1..26 : UpperCase[i] = c]
    ELSE c

\* (a lower() that leaves the case as it is)
LowerMissing(str) == str

\* str.lower()
Lower(str) == [i \in 1..Len(str) |-> LowerChar(str[i])]

\* a in b, for strings
In(a, b) ==
    \E i \in 0..(Len(b) - Len(a)) : SubSeq(b, i + 1, i + Len(a)) = a

Bangalore == <<"B", "a", "n", "g", "a", "l", "o", "r", "e">>
Mumbai == <<"M", "u", "m", "b", "a", "i">>
Delhi == <<"D", "e", "l", "h", "i">>
Hyderabad == <<"H", "y", "d", "e", "r", "a", "b", "a", "d">>
NaviMumbai == <<"N", "a", "v", "i", " ", "M", "u", "m", "b", "a", "i">>

\* recommendations.py:30-67
MOCK_JOBS ==
    <<[id |-> "job_1", requiredSkills |-> <<"javascript", "react", "node.js">>,
       location |-> Some(Bangalore), jobType |-> Some("internship")],
      [id |-> "job_2",
       requiredSkills |-> <<"python", "machine learning", "pandas">>,
       location |-> Some(Mumbai), jobType |-> Some("internship")],
      [id |-> "job_3",
       requiredSkills |-> <<"javascript", "react", "css", "html">>,
       location |-> Some(Delhi), jobType |-> Some("full-time")],
      [id |-> "job_4",
       requiredSkills |-> <<"python", "django", "postgresql", "aws">>,
       location |-> Some(Hyderabad), jobType |-> Some("full-time")]>>

\* a job list as a job source other than the mock data may hold it: a job
\* that requires nothing, one without location, one without job type, a
\* skill listed twice
OtherJobs ==
    <<[id |-> "job_a", requiredSkills |-> <<"python", "django", "aws">>,
       location |-> Some(NaviMumbai), jobType |-> Some("internship")],
      [id |-> "job_b", requiredSkills |-> <<>>,
       location |-> Absent(<<>>), jobType |-> Some("full-time")],
      [id |-> "job_c", requiredSkills |-> <<"react", "python", "react">>,
       location |-> Some(Mumbai), jobType |-> Absent("")],
      [id |-> "job_d", requiredSkills |-> <<"aws", "python", "css">>,
       location |-> Some(Delhi), jobType |-> Some("internship")],
      [id |-> "job_e", requiredSkills |-> <<"react", "python">>,
       location |-> Some(Hyderabad), jobType |-> Some("internship")]>>

Datasets == {MOCK_JOBS, OtherJobs}

\* profile["skills"]: recommendations.py:83 and 115, and other profiles
Profiles ==
    {<<"javascript", "react", "python", "node.js">>,
     <<"javascript", "python", "react">>,
     <<"python", "react">>,
     <<>>}

\* request.filters; minFitScore in fixed point, 33.3 is 33300
JobTypes == {Absent(""), Some("internship"), Some("full-time")}
Locations ==
    {Absent(<<>>), Some(<<>>), Some(<<"M", "U", "M">>),
     Some(<<"d", "e", "l", "h", "i">>), Some(<<"P", "u", "n", "e">>)}
MinFitScores == {Absent(0), Some(0), Some(33300), Some(50 * ONE)}
Filters == [jobType : JobTypes, location : Locations, minFitScore : MinFitScores]

\* set(list)
ToSet(list) == {list[i] : i \in 1..Len(list)}

\* (a match measured against the candidate's skills)
SkillMatchOfStudent(student_skills, job_skills) ==
    IF student_skills # {}
    THEN DivRound(Cardinality(student_skills \cap job_skills) * ONE,
                  Cardinality(student_skills))
    ELSE 0

\* recommendations.py:148-152: skill_match
SkillMatch(student_skills, job_skills) ==
    IF job_skills # {}
    THEN DivRound(Cardinality(student_skills \cap job_skills) * ONE,
                  Cardinality(job_skills))
    ELSE 0

\* round(x, 1)
Round1(x) == DivRound(x, ONE \div 10) * (ONE \div 10)

\* recommendations.py:155-165: the reason for a fit score
Reason(fit_score) ==
    IF fit_score >= 80 * ONE THEN "Excellent skill match"
    ELSE IF fit_score >= 60 * ONE THEN "Good skill match"
    ELSE IF fit_score >= 40 * ONE THEN "Partial skill match"
    ELSE "Limited skill match"

\* recommendations.py:167-176: JobRecommendation(...)
JobRecommendation(job, skill_match) ==
    LET fit_score == Min(100 * ONE, skill_match * 100)
    IN  [jobId |-> job.id, fitScore |-> Round1(fit_score),
         reason |-> Reason(fit_score), location |-> job.location,
         jobType |-> job.jobType, skills |-> job.requiredSkills]

\* MOCK_JOBS[:limit]: the first limit jobs, and for a negative limit all but
\* the last -limit
FirstJobs(jobs, limit) ==
    IF limit >= 0 THEN SubSeq(jobs, 1, Min(limit, Len(jobs)))
    ELSE SubSeq(jobs, 1, Len(jobs) + limit)

\* (a sort that lets a later item pass an earlier one of equal key)
KeepsBeforeStrict(a, b) == a > b

\* list.sort(key, reverse=True): an item stays before a later item unless the
\* later one has the higher key
KeepsBefore(a, b) == a >= b

RECURSIVE InsertByKey(_, _, _)
InsertByKey(order, keys, i) ==
    IF order = <<>> THEN <<i>>
    ELSE IF KeepsBefore(keys[Head(order)], keys[i])
         THEN <<Head(order)>> \o InsertByKey(Tail(order), keys, i)
         ELSE <<i>> \o order

RECURSIVE SortedOrder(_, _)
SortedOrder(keys, n) ==
    IF n = 0 THEN <<>>
    ELSE InsertByKey(SortedOrder(keys, n - 1), keys, n)

\* (a sort that leaves the list as it is)
SortSkipped(list, keys) == list

\* the list in the order list.sort(key, reverse=True) leaves it in
SortDescending(list, keys) ==
    LET order == SortedOrder(keys, Len(list))
    IN  [i \in 1..Len(list) |-> list[order[i]]]

\* None and the empty string count as false
Truthy(x) == x.some /\ x.val # <<>>

\* recommendations.py:183-204
apply_filters(recommendations, filters) ==
    LET byType ==
            IF filters.jobType.some
            THEN SelectSeq(recommendations,
                           LAMBDA r : r.jobType = filters.jobType)
            ELSE recommendations
        location == Lower(filters.location.val)
        byLocation ==
            IF filters.location.some
            THEN SelectSeq(byType, LAMBDA r : /\ Truthy(r.location)
                                              /\ In(location, Lower(r.location.val)))
            ELSE byType
    IN  IF filters.minFitScore.some
        THEN SelectSeq(byLocation,
                       LAMBDA r : r.fitScore >= filters.minFitScore.val)
        ELSE byLocation

\* request.filters is a non-empty dictionary
HasFilters(filters) ==
    filters.jobType.some \/ filters.location.some \/ filters.minFitScore.some

\* the requests that may arrive: POST /recommendations validates limit >= 1
\* (line 11) and may carry filters, GET /recommendations/{studentId} takes
\* limit as it comes (line 70) and has no filters
RecRequests ==
    {r \in [stage : {"request"}, skills : Profiles, jobs : Datasets,
            limit : (0 - MaxBelowZero)..MaxLimit, filters : Filters,
            matches : {<<>>}, scored : {<<>>}, ranked : {<<>>}, out : {<<>>}] :
        r.limit < 1 => ~HasFilters(r.filters)}

\* generate_mock_recommendations(profile, limit), recommendations.py:138-181,
\* called at lines 93 and 120
GenerateRecommendations ==
    /\ rec.stage = "request"
    /\ LET student_skills == ToSet(rec.skills)
           first == FirstJobs(rec.jobs, rec.limit)
           matches == [i \in 1..Len(first) |->
                          SkillMatch(student_skills,
                                     ToSet(first[i].requiredSkills))]
           scored == [i \in 1..Len(first) |->
                         JobRecommendation(first[i], matches[i])]
           keys == [i \in 1..Len(first) |-> scored[i].fitScore]
       IN  rec' = [rec EXCEPT !.stage = "ranked", !.matches = matches,
                              !.scored = scored,
                              !.ranked = SortDescending(scored, keys)]
    /\ UNCHANGED <<embedding_model, chat_model, faiss_index, heap, file,
                   modelLoadable, callers, call, loads, installs, creates>>

\* recommendations.py:95-99 and 123-130: filters applied if there are any, and
\* the response
ReplyRecommendations ==
    /\ rec.stage = "ranked"
    /\ rec' = [rec EXCEPT !.stage = "replied", !.out =
                  IF HasFilters(rec.filters)
                  THEN apply_filters(rec.ranked, rec.filters)
                  ELSE rec.ranked]
    /\ UNCHANGED <<embedding_model, chat_model, faiss_index, heap, file,
                   modelLoadable, callers, call, loads, installs, creates>>

-----------------------------------------------------------------------------
(* find_similar_jobs, similar_jobs.py:76-162 *)

\* similar_jobs.py:28-74; the text of a job is what lines 96 and 137 format
\* from its title, description and skills
MOCK_JOBS_DB ==
    <<[id |-> "job_1", text |-> JobText1],
      [id |-> "job_2", text |-> JobText2],
      [id |-> "job_3", text |-> JobText3],
      [id |-> "job_4", text |-> JobText4],
      [id |-> "job_5", text |-> JobText5]>>

\* request.jobId: the jobs of the database and an id that is not in it
JobIds == {MOCK_JOBS_DB[i].id : i \in 1..Len(MOCK_JOBS_DB)} \cup {"job_9"}

\* (a similarity that takes vectors without length for equal)
cosine_of_zero_is_one(embedding1, embedding2) ==
    IF NormSqr(embedding1) = 0 \/ NormSqr(embedding2) = 0 THEN ONE
    ELSE InnerProduct(NormalizeRow(embedding1), NormalizeRow(embedding2))

\* similar_jobs.py:164-181, in fixed point: 0.0 when a norm is 0, else
\* dot / (norm1 * norm2)
calculate_cosine_similarity(embedding1, embedding2) ==
    LET norm1 == Isqrt(NormSqr(embedding1))
        norm2 == Isqrt(NormSqr(embedding2))
        dot == SumSeq([i \in 1..Len(embedding1) |->
                          embedding1[i] * embedding2[i]])
    IN  IF norm1 = 0 \/ norm2 = 0 THEN 0
        ELSE DivRound(DivRound(dot, norm1) * ONE, norm2)

\* (a slice that is not taken)
UpToUnlimited(list, limit) == list

\* similar_jobs[:limit]
UpTo(list, limit) == SubSeq(list, 1, Min(limit, Len(list)))

\* a POST /similar-jobs request arrives
StartSimilar(t) ==
    /\ call[t].pc = "idle"
    /\ \E id \in JobIds, limit \in 1..MaxSimilar :
          Step(t, [Begin("similar", "sim83") EXCEPT !.jobId = id, !.k = limit])
    /\ UNCHANGED <<embedding_model, faiss_index, heap, file, modelLoadable,
                   callers, loads, installs, creates>>

\* lines 83-96: look the reference job up, 404 when it is not there
SimFindReference(t) ==
    /\ call[t].pc = "sim83"
    /\ LET found == {i \in 1..Len(MOCK_JOBS_DB) :
                        MOCK_JOBS_DB[i].id = call[t].jobId}
       IN  IF found = {}
           THEN Step(t, Return(call[t], "404", <<>>))
           ELSE LET r == CHOOSE i \in found : \A j \in found : i <= j
                IN  Step(t, [call[t] EXCEPT
                                !.texts = <<MOCK_JOBS_DB[r].text>>,
                                !.pc = "sim97"])
    /\ UNCHANGED <<embedding_model, faiss_index, heap, file, modelLoadable,
                   callers, loads, installs, creates>>

\* line 97: reference_embedding = generate_embeddings([reference_text])
SimEmbedReference(t) ==
    /\ call[t].pc = "sim97"
    /\ Step(t, Invoke(call[t], "gen111", "sim99"))
    /\ UNCHANGED <<embedding_model, faiss_index, heap, file, modelLoadable,
                   callers, loads, installs, creates>>

\* lines 99-110 and 130: 503 without a reference embedding, else
\* find_similar_jobs_by_embedding(reference_job, reference_embedding[0], limit)
\* starts with similar_jobs = []
SimCheckReference(t) ==
    /\ call[t].pc = "sim99"
    /\ IF call[t].res.status = "None"
       THEN Step(t, Return(call[t], "503", <<>>))
       ELSE Step(t, [call[t] EXCEPT !.ref = call[t].arr[1], !.i = 1,
                                    !.out = <<>>, !.pc = "sim132"])
    /\ UNCHANGED <<embedding_model, faiss_index, heap, file, modelLoadable,
                   callers, loads, installs, creates>>

\* lines 132-138: the next job of the database; the reference job is skipped,
\* any other job is embedded: job_embedding = generate_embeddings([job_text])
SimNextJob(t) ==
    /\ call[t].pc = "sim132"
    /\ LET i == call[t].i
       IN  IF i > Len(MOCK_JOBS_DB)
           THEN Step(t, [call[t] EXCEPT !.pc = "sim160"])
           ELSE IF MOCK_JOBS_DB[i].id = call[t].jobId
           THEN Step(t, [call[t] EXCEPT !.i = i + 1])
           ELSE Step(t, Invoke([call[t] EXCEPT
                                   !.texts = <<MOCK_JOBS_DB[i].text>>],
                               "gen111", "sim140"))
    /\ UNCHANGED <<embedding_model, faiss_index, heap, file, modelLoadable,
                   callers, loads, installs, creates>>

\* lines 140-157: a job without embedding is passed over; else its cosine
\* similarity to the reference, rounded to 3 decimals, is appended
SimScoreJob(t) ==
    /\ call[t].pc = "sim140"
    /\ LET i == call[t].i
           job == MOCK_JOBS_DB[i]
       IN  IF call[t].res.status = "None"
           THEN Step(t, [call[t] EXCEPT !.skipped = @ \cup {job.id},
                                        !.i = i + 1, !.pc = "sim132"])
           ELSE LET similarity_score ==
                        calculate_cosine_similarity(call[t].ref, call[t].arr[1])
                IN  Step(t, [call[t] EXCEPT
                                !.out = Append(@,
                                    [jobId |-> job.id,
                                     similarityScore |-> similarity_score]),
                                !.i = i + 1, !.pc = "sim132"])
    /\ UNCHANGED <<embedding_model, faiss_index, heap, file, modelLoadable,
                   callers, loads, installs, creates>>

\* lines 160-162 and 112-116: sort by similarityScore, descending, cut to
\* limit, and the response
SimReply(t) ==
    /\ call[t].pc = "sim160"
    /\ LET list == call[t].out
           keys == [j \in 1..Len(list) |-> list[j].similarityScore]
           sorted == SortDescending(list, keys)
       IN  Step(t, Return([call[t] EXCEPT !.found = list,
                                          !.out = UpTo(sorted, call[t].k)],
                          "SimilarJobs", <<>>))
    /\ UNCHANGED <<embedding_model, faiss_index, heap, file, modelLoadable,
                   callers, loads, installs, creates>>

-----------------------------------------------------------------------------
(* Scoring a query against vectors, by calculate_cosine_similarity and by   *)
(* the index: the two computations as functions of their inputs             *)

\* vectors of one dimension, with and without length
Vectors == {E1, E2, E3, Diag, Zero, <<ONE, ONE, ONE>>}

\* batches of up to two of them
VectorLists ==
    {<<v>> : v \in Vectors} \cup {<<u, v>> : u \in Vectors, v \in Vectors}

\* a query, the vectors it is scored against, and k
ScoreInputs ==
    [stage : {"vectors"}, query : Vectors, batch : VectorLists, k : 1..MaxK,
     similarity : {<<>>}, pairs : {<<>>}]

\* similar_jobs.py:144: calculate_cosine_similarity(reference_embedding,
\* job_embedding[0]) for each of the vectors
CosineScore ==
    /\ rec.stage = "vectors"
    /\ rec' = [rec EXCEPT !.stage = "similarity", !.similarity =
                  [i \in 1..Len(rec.batch) |->
                      calculate_cosine_similarity(rec.query, rec.batch[i])]]
    /\ UNCHANGED <<embedding_model, chat_model, faiss_index, heap, file,
                   modelLoadable, callers, call, loads, installs, creates>>

\* models.py:129-132 and 151-154: the batch normalized and added to an empty
\* index of its dimension, the query normalized and searched for
IndexScore ==
    /\ rec.stage = "similarity"
    /\ LET o == IndexAdd(IndexFlatIP(Len(rec.batch[1])), 0,
                         NormalizeL2(rec.batch))
           q == NormalizeL2(<<rec.query>>)[1]
       IN  rec' = [rec EXCEPT !.stage = "searched", !.pairs =
                      FaissSearch(o.codes, o.ntotal, q, rec.k)]
    /\ UNCHANGED <<embedding_model, chat_model, faiss_index, heap, file,
                   modelLoadable, callers, call, loads, installs, creates>>

-----------------------------------------------------------------------------
(* Specifications *)

InitModels(cs) ==
    /\ embedding_model = 0
    /\ chat_model = 0
    /\ faiss_index = 0
    /\ callers = cs
    /\ heap = [i \in 1..(Cardinality(cs) + 1) |-> NoObj]
    /\ file = NoFile
    /\ modelLoadable \in BOOLEAN
    /\ call = [t \in cs |-> Idle]
    /\ loads = 0
    /\ installs = 0
    /\ creates = 0

InitWith(cs) == InitModels(cs) /\ rec = NoRec

\* one caller at a time: the contracts of the operations
Init == InitWith({1})

\* two workers inside the module at once
InitRace == InitWith({1, 2})

Next ==
    \/ \E t \in callers : GemCheck(t)
    \/ \E t \in callers : GemLoad(t)
    \/ \E t \in callers : GemReturn(t)
    \/ \E t \in callers : GfiCheck(t)
    \/ \E t \in callers : GfiExists(t)
    \/ \E t \in callers : GfiRead(t)
    \/ \E t \in callers : GfiGetModel(t)
    \/ \E t \in callers : GfiCreate(t)
    \/ \E t \in callers : GfiWrite(t)
    \/ \E t \in callers : GfiReturn(t)
    \/ \E t \in callers : GenGetModel(t)
    \/ \E t \in callers : GenEncode(t)
    \/ \E t \in callers : AddGetIndex(t)
    \/ \E t \in callers : AddNormalize(t)
    \/ \E t \in callers : AddBegin(t)
    \/ \E t \in callers : AddGrow(t)
    \/ \E t \in callers : AddStore(t)
    \/ \E t \in callers : AddWrite(t)
    \/ \E t \in callers : SearchGetIndex(t)
    \/ \E t \in callers : SearchNormalize(t)
    \/ \E t \in callers : SearchRun(t)
    \/ \E t \in callers : EmbGenerate(t)
    \/ \E t \in callers : EmbReply(t)
    \/ \E t \in callers : StoreGenerate(t)
    \/ \E t \in callers : StoreAdd(t)
    \/ \E t \in callers : StoreReply(t)
    \/ \E t \in callers : cleanup_models(t)
    \/ \E t \in callers : StartAdd(t)
    \/ \E t \in callers : StartSearch(t)
    \/ \E t \in callers : StartEmbed(t)
    \/ \E t \in callers : StartStore(t)
    \/ \E t \in callers : Finish(t)
    \/ \E t \in callers : SearchAgain(t)
    \/ \E t \in callers : SearchInserted(t)
    \/ \E t \in callers : EmbedAgain(t)
    \/ EnvModel

Spec == Init /\ [][Next]_vars

\* the calls two concurrent workers make: insert, search, embed, cleanup
NextRace ==
    \/ \E t \in callers : GemCheck(t)
    \/ \E t \in callers : GemLoad(t)
    \/ \E t \in callers : GemReturn(t)
    \/ \E t \in callers : GfiCheck(t)
    \/ \E t \in callers : GfiExists(t)
    \/ \E t \in callers : GfiRead(t)
    \/ \E t \in callers : GfiGetModel(t)
    \/ \E t \in callers : GfiCreate(t)
    \/ \E t \in callers : GfiWrite(t)
    \/ \E t \in callers : GfiReturn(t)
    \/ \E t \in callers : GenGetModel(t)
    \/ \E t \in callers : GenEncode(t)
    \/ \E t \in callers : AddGetIndex(t)
    \/ \E t \in callers : AddNormalize(t)
    \/ \E t \in callers : AddBegin(t)
    \/ \E t \in callers : AddGrow(t)
    \/ \E t \in callers : AddStore(t)
    \/ \E t \in callers : AddWrite(t)
    \/ \E t \in callers : SearchGetIndex(t)
    \/ \E t \in callers : SearchNormalize(t)
    \/ \E t \in callers : SearchRun(t)
    \/ \E t \in callers : EmbGenerate(t)
    \/ \E t \in callers : EmbReply(t)
    \/ \E t \in callers : cleanup_models(t)
    \/ \E t \in callers : StartAdd(t)
    \/ \E t \in callers : StartSearch(t)
    \/ \E t \in callers : StartEmbed(t)
    \/ \E t \in callers : Finish(t)

SpecRace == InitRace /\ [][NextRace]_vars

\* two concurrent workers that insert and search in one process, with no
\* cleanup_models
NextVisible ==
    \/ \E t \in callers : GemCheck(t)
    \/ \E t \in callers : GemLoad(t)
    \/ \E t \in callers : GemReturn(t)
    \/ \E t \in callers : GfiCheck(t)
    \/ \E t \in callers : GfiExists(t)
    \/ \E t \in callers : GfiRead(t)
    \/ \E t \in callers : GfiGetModel(t)
    \/ \E t \in callers : GfiCreate(t)
    \/ \E t \in callers : GfiWrite(t)
    \/ \E t \in callers : GfiReturn(t)
    \/ \E t \in callers : AddGetIndex(t)
    \/ \E t \in callers : AddNormalize(t)
    \/ \E t \in callers : AddBegin(t)
    \/ \E t \in callers : AddGrow(t)
    \/ \E t \in callers : AddStore(t)
    \/ \E t \in callers : AddWrite(t)
    \/ \E t \in callers : SearchGetIndex(t)
    \/ \E t \in callers : SearchNormalize(t)
    \/ \E t \in callers : SearchRun(t)
    \/ \E t \in callers : StartAdd(t)
    \/ \E t \in callers : StartSearch(t)
    \/ \E t \in callers : Finish(t)

SpecVisible == InitRace /\ [][NextVisible]_vars

\* a recommendations request from arrival to response; it calls nothing in
\* models.py
InitRank == InitModels({1}) /\ ~modelLoadable /\ rec \in RecRequests

NextRank ==
    \/ GenerateRecommendations
    \/ ReplyRecommendations

SpecRank == InitRank /\ [][NextRank]_vars

\* index calls, chat model loads and cleanups, one at a time
NextCleanup ==
    \/ \E t \in callers : GemCheck(t)
    \/ \E t \in callers : GemLoad(t)
    \/ \E t \in callers : GemReturn(t)
    \/ \E t \in callers : GfiCheck(t)
    \/ \E t \in callers : GfiExists(t)
    \/ \E t \in callers : GfiRead(t)
    \/ \E t \in callers : GfiGetModel(t)
    \/ \E t \in callers : GfiCreate(t)
    \/ \E t \in callers : GfiWrite(t)
    \/ \E t \in callers : GfiReturn(t)
    \/ \E t \in callers : AddGetIndex(t)
    \/ \E t \in callers : AddNormalize(t)
    \/ \E t \in callers : AddBegin(t)
    \/ \E t \in callers : AddGrow(t)
    \/ \E t \in callers : AddStore(t)
    \/ \E t \in callers : AddWrite(t)
    \/ \E t \in callers : SearchGetIndex(t)
    \/ \E t \in callers : SearchNormalize(t)
    \/ \E t \in callers : SearchRun(t)
    \/ \E t \in callers : get_chat_model(t)
    \/ \E t \in callers : cleanup_models(t)
    \/ \E t \in callers : StartAdd(t)
    \/ \E t \in callers : StartSearch(t)
    \/ \E t \in callers : Finish(t)
    \/ EnvModel

SpecCleanup == Init /\ [][NextCleanup]_vars

\* a query scored against vectors
InitScore == InitModels({1}) /\ ~modelLoadable /\ rec \in ScoreInputs

NextScore ==
    \/ CosineScore
    \/ IndexScore

SpecScore == InitScore /\ [][NextScore]_vars

\* /similar-jobs requests, one at a time, while the embedding model comes and
\* goes
NextSimilar ==
    \/ \E t \in callers : GemCheck(t)
    \/ \E t \in callers : GemLoad(t)
    \/ \E t \in callers : GemReturn(t)
    \/ \E t \in callers : GenGetModel(t)
    \/ \E t \in callers : GenEncode(t)
    \/ \E t \in callers : StartSimilar(t)
    \/ \E t \in callers : SimFindReference(t)
    \/ \E t \in callers : SimEmbedReference(t)
    \/ \E t \in callers : SimCheckReference(t)
    \/ \E t \in callers : SimNextJob(t)
    \/ \E t \in callers : SimScoreJob(t)
    \/ \E t \in callers : SimReply(t)
    \/ \E t \in callers : Finish(t)
    \/ EnvModel

SpecSimilar == Init /\ [][NextSimilar]_vars

-----------------------------------------------------------------------------
(* What a finished call looks like *)

\* tolerance on a score, in fixed point units
Tol == 2

Near(a, b) == a - b <= Tol /\ b - a <= Tol

Done(t, op) == call[t].pc = "done" /\ call[t].op = op

\* the call started on a Loaded index
WasLoaded(t) == call[t].pre.idx # 0

\* every row of the array has dimension d
AllDim(arr, d) == \A i \in 1..Len(arr) : Len(arr[i]) = d

\* an insert through add_to_faiss_index or through /embeddings/store
InsertDone(t) == Done(t, "add") \/ Done(t, "store")
InsertOk(t) ==
    \/ Done(t, "add") /\ call[t].res.status = "True"
    \/ Done(t, "store") /\ call[t].res.status = "Stored"

Slots(pairs) == {pairs[j][1] : j \in 1..Len(pairs)}

Descending(pairs) ==
    \A i, j \in 1..Len(pairs) : i < j => pairs[i][2] >= pairs[j][2]

-----------------------------------------------------------------------------
(* Claims *)

\* C1: when an insert of b vectors into a Loaded index of count N reports
\* success, the in-memory index and the index file both have count N + b.
C1_InsertCounts ==
    \A t \in callers :
        (InsertOk(t) /\ WasLoaded(t)) =>
            /\ faiss_index # 0
            /\ MemCount = call[t].pre.n + Len(call[t].arg)
            /\ file.exists
            /\ file.ntotal = call[t].pre.n + Len(call[t].arg)

\* C1 witness: a two-vector batch went into a non-empty Loaded index
C1_Witness ==
    \E t \in callers :
        /\ InsertOk(t) /\ WasLoaded(t)
        /\ call[t].pre.n >= 1
        /\ Len(call[t].arg) = 2

C3_EmptyIndexEmptyResult ==
    \A t \in callers :
        (Done(t, "search") /\ WasLoaded(t) /\ call[t].pre.n = 0
            /\ AllDim(call[t].arg, call[t].pre.d)) =>
            /\ call[t].res.status = "Pairs"
            /\ call[t].res.pairs = <<>>

\* C4 (as claimed): a search on a Loaded index with N >= 1 vectors returns
\* exactly min(k, N) pairs, by descending score, with pairwise distinct slots,
\* all in 0..N-1.
C4_SearchShape ==
    \A t \in callers :
        (Done(t, "search") /\ WasLoaded(t) /\ call[t].pre.n >= 1
            /\ AllDim(call[t].arg, call[t].pre.d)) =>
            LET pairs == call[t].res.pairs
            IN  /\ call[t].res.status = "Pairs"
                /\ Len(pairs) = Min(call[t].k, call[t].pre.n)
                /\ Descending(pairs)
                /\ Cardinality(Slots(pairs)) = Len(pairs)
                /\ Slots(pairs) \subseteq 0..(call[t].pre.n - 1)

\* the search that follows a successful insert, asking for an inserted
\* non-zero vector
SelfSearch(t) ==
    /\ Done(t, "search")
    /\ call[t].prev.kind = "add"
    /\ NormSqr(call[t].arg[1]) # 0

\* C5 (as claimed): after a successful insert of a non-zero vector v into slot
\* s, the immediately following search for v returns slot s with score 1.0
\* within tolerance, and no returned score is higher.
C5_SelfSlotReturned ==
    \A t \in callers :
        SelfSearch(t) =>
            LET pairs == call[t].res.pairs
            IN  /\ call[t].res.status = "Pairs"
                /\ \E j \in 1..Len(pairs) :
                      /\ pairs[j][1] = call[t].prev.slot
                      /\ Near(pairs[j][2], ONE)
                /\ \A j \in 1..Len(pairs) : pairs[j][2] <= ONE + Tol

\* C5 (amended): the search returns scores of at most 1.0, the first of them
\* 1.0 within tolerance, and slot s itself is among the results with that
\* score unless all k results are slots that score as high as s does.
C5_SelfScore ==
    \A t \in callers :
        SelfSearch(t) =>
            LET pairs == call[t].res.pairs
                s == call[t].prev.slot
                own == InnerProduct(call[t].arr[1],
                                    heap[faiss_index].codes[s + 1])
            IN  /\ call[t].res.status = "Pairs"
                /\ Near(own, ONE)
                /\ Near(pairs[1][2], ONE)
                /\ \A j \in 1..Len(pairs) : pairs[j][2] <= ONE + Tol
                /\ \/ \E j \in 1..Len(pairs) :
                         pairs[j][1] = s /\ pairs[j][2] = own
                   \/ \A j \in 1..Len(pairs) :
                         pairs[j][1] # NoSlot /\ pairs[j][2] >= own

\* C5 witness: an un-normalized vector was inserted behind other vectors and
\* then found at its own slot
C5_Witness ==
    \E t \in callers :
        /\ SelfSearch(t)
        /\ call[t].arg[1] = Diag
        /\ call[t].prev.slot >= 1
        /\ call[t].prev.slot \in Slots(call[t].res.pairs)

\* C6 (as claimed): a search repeated with the same query and the same k, with
\* no insert in between, returns what the first one returned.
C6_SearchRepeatable ==
    \A t \in callers :
        (Done(t, "search") /\ call[t].prev.kind = "search") =>
            /\ call[t].res.status = call[t].prev.status
            /\ call[t].res.pairs = call[t].prev.pairs

\* slots that hold a stored vector, as opposed to the padding label
Stored(p) == p[1] # NoSlot

\* C7 (as claimed): results of equal score come lower slot first; with
\* [1,0,0], [0,1,0], [0,0,1] in slots 0, 1, 2 the query [1,0,0] with k = 2
\* returns [(0, 1.0), (1, 0.0)].
C7_TiesByInsertionOrder ==
    \A t \in callers :
        (Done(t, "search") /\ call[t].res.status = "Pairs") =>
            LET pairs == call[t].res.pairs
            IN  /\ \A i, j \in 1..Len(pairs) :
                      (i < j /\ Stored(pairs[i]) /\ Stored(pairs[j])
                          /\ pairs[i][2] = pairs[j][2])
                          => pairs[i][1] < pairs[j][1]
                /\ (/\ WasLoaded(t)
                    /\ heap[faiss_index].codes = <<E1, E2, E3>>
                    /\ call[t].arg = <<E1>>
                    /\ call[t].k = 2)
                        => pairs = <<<<0, ONE>>, <<1, 0>>>>

-----------------------------------------------------------------------------
(* Claims about concurrent callers *)

\* C8 (as claimed): between two cleanups at most one embedding model is
\* constructed, and every caller that got a model got that one.
C8_ModelLoadedOnce ==
    /\ loads <= 1
    /\ \A t \in callers : call[t].em # 0 => call[t].em = 1

\* C9 (as claimed): the index is loaded or created once: at most one index
\* object is installed as the process-wide index and the index file is
\* created at most once.
C9_IndexInstalledOnce ==
    /\ installs <= 1
    /\ creates <= 1

\* the statements of add_to_faiss_index from the append to the write
Appending(t) == call[t].pc \in {"add132w", "add132c", "add135"}

\* C10 (as claimed): the append-and-persist sequences of two inserts never
\* interleave, and after two successful inserts of b1 and b2 vectors the
\* in-memory and the persisted count are both N + b1 + b2, each batch in
\* contiguous slots of its own.
C10_InsertsSerialized ==
    \A t, u \in callers :
        t # u =>
            /\ ~(Appending(t) /\ Appending(u))
            /\ (/\ Done(t, "add") /\ call[t].res.status = "True"
                /\ Done(u, "add") /\ call[u].res.status = "True"
                /\ call[t].n0 <= call[u].n0)
                   => /\ call[u].n0 = call[t].n0 + Len(call[t].arg)
                      /\ faiss_index # 0
                      /\ MemCount = call[u].n0 + Len(call[u].arg)
                      /\ file.ntotal = call[u].n0 + Len(call[u].arg)

\* C11 (as claimed): a search concurrent with an insert sees the index with
\* all of the insert's batch or none of it: it never scans a slot that the
\* insert has counted and not yet written.
C11_SearchSeesWholeBatch ==
    \A t \in callers :
        (Done(t, "search") /\ call[t].res.status = "Pairs") => ~call[t].torn

-----------------------------------------------------------------------------
(* Claims about failures *)

\* control is back in a handler right after its generate_embeddings call
Embedded(t) == call[t].pc \in {"emb36", "store100"}

\* the request's generate_embeddings call handed no array to the handler
EmbedFailed(t) == call[t].arg = <<>>

PersistFailed(t) ==
    /\ InsertDone(t) /\ ~InsertOk(t)
    /\ WasLoaded(t)
    /\ call[t].arg # <<>>
    /\ AllDim(call[t].arg, call[t].pre.d)

-----------------------------------------------------------------------------
(* Claims about recommendations *)

\* the recommendations of the request have been scored and sorted
Ranked == rec.stage \in {"ranked", "replied"}

\* the k-th job that was scored
ScoredJob(k) == rec.jobs[k]

\* C14: the skill match of a job is in [0, 1]; it is the number of required
\* skills the candidate has divided by the number of required skills, and 0.0
\* for a job that requires nothing; candidate {python, react} against required
\* {python, django, aws} gives 1/3.
C14_SkillMatch ==
    Ranked =>
        \A k \in 1..Len(rec.matches) :
            LET candidate == ToSet(rec.skills)
                required == ToSet(ScoredJob(k).requiredSkills)
                common == Cardinality(candidate \cap required)
                n == Cardinality(required)
                m == rec.matches[k]
            IN  /\ 0 <= m /\ m <= ONE
                /\ n = 0 => m = 0
                /\ 2 * (m * n - common * ONE) <= n
                /\ 2 * (common * ONE - m * n) <= n
                /\ (candidate = {"python", "react"}
                        /\ required = {"python", "django", "aws"})
                       => m = 333

\* C14 witness: one request scored the job that requires python, django and
\* aws for the candidate with python and react, and a job that requires
\* nothing
C14_Witness ==
    /\ Ranked
    /\ ToSet(rec.skills) = {"python", "react"}
    /\ \E k \in 1..Len(rec.matches) :
          ToSet(ScoredJob(k).requiredSkills) = {"python", "django", "aws"}
    /\ \E k \in 1..Len(rec.matches) : ScoredJob(k).requiredSkills = <<>>

\* the filter's location occurs in the item's location, letter case aside
LocationMatches(wanted, location) ==
    \E off \in 0..(Len(location) - Len(wanted)) :
        \A i \in 1..Len(wanted) :
            LowerChar(wanted[i]) = LowerChar(location[off + i])

\* the item satisfies every predicate the filters supply
Survives(r, filters) ==
    /\ filters.jobType.some =>
          r.jobType.some /\ r.jobType.val = filters.jobType.val
    /\ filters.location.some =>
          r.location.some /\ LocationMatches(filters.location.val, r.location.val)
    /\ filters.minFitScore.some => r.fitScore >= filters.minFitScore.val

\* position of an item in a list of items with distinct job ids
Position(list, r) == CHOOSE i \in 1..Len(list) : list[i].jobId = r.jobId

\* C15: the filtered list holds exactly the items that satisfy every supplied
\* predicate, each once, in the order they had before filtering; a filter key
\* that is absent removes nothing.
C15_FiltersExact ==
    rec.stage = "replied" =>
        /\ \A i \in 1..Len(rec.out) :
              /\ \E j \in 1..Len(rec.ranked) : rec.ranked[j] = rec.out[i]
              /\ Survives(rec.out[i], rec.filters)
        /\ \A j \in 1..Len(rec.ranked) :
              Survives(rec.ranked[j], rec.filters) =>
                  \E i \in 1..Len(rec.out) : rec.out[i] = rec.ranked[j]
        /\ \A i, j \in 1..Len(rec.out) :
              i < j => Position(rec.ranked, rec.out[i])
                           < Position(rec.ranked, rec.out[j])
        /\ ~HasFilters(rec.filters) => rec.out = rec.ranked

\* C15 witness: a job type filter and a location filter in another letter
\* case than the items' kept two of five items and removed three
C15_Witness ==
    /\ rec.stage = "replied"
    /\ rec.filters.jobType.some
    /\ rec.filters.location = Some(<<"M", "U", "M">>)
    /\ Len(rec.ranked) = 5
    /\ Len(rec.out) >= 1
    /\ Len(rec.out) < Len(rec.ranked)

-----------------------------------------------------------------------------
(* Claims about similar jobs *)

JobIdsOf(list) == {list[j].jobId : j \in 1..Len(list)}

\* the jobs find_similar_jobs_by_embedding had to embed: all but the reference
Candidates(t) == (JobIds \ {"job_9"}) \ {call[t].jobId}

\* find_similar_jobs_by_embedding has returned and the response is out
Answered(t) == Done(t, "similar") /\ call[t].res.status = "SimilarJobs"

\* C17 (as claimed): the result has an entry for every job whose embedding
\* succeeded and none for a job whose embedding failed.
C17_EveryEmbeddedJobReturned ==
    \A t \in callers :
        Answered(t) => JobIdsOf(call[t].out) = Candidates(t) \ call[t].skipped

\* C17 (amended): a job whose embedding fails is passed over and the others
\* are still scored: the list that is sorted has one entry for every job
\* whose embedding succeeded and none for the others, the result is the first
\* limit entries of that list, and a lookup whose reference job was embedded
\* always answers.
C17_FailuresPerItem ==
    \A t \in callers :
        /\ Answered(t) =>
              /\ call[t].skipped \subseteq Candidates(t)
              /\ JobIdsOf(call[t].found) = Candidates(t) \ call[t].skipped
              /\ Len(call[t].found) = Cardinality(JobIdsOf(call[t].found))
              /\ JobIdsOf(call[t].out) \subseteq JobIdsOf(call[t].found)
              /\ Len(call[t].out) = Min(call[t].k, Len(call[t].found))
        /\ (Done(t, "similar") /\ call[t].ref # <<>>) => Answered(t)

\* C17 witness: the embedding of one job failed, that of a later job
\* succeeded, and the limit was large enough for all that succeeded
C17_Witness ==
    \E t \in callers :
        /\ Answered(t)
        /\ call[t].jobId = "job_1"
        /\ "job_3" \in call[t].skipped
        /\ "job_4" \in JobIdsOf(call[t].out)
        /\ Len(call[t].out) = Len(call[t].found)
        /\ Len(call[t].out) >= 2

-----------------------------------------------------------------------------
(* Claims about the life of the index *)

\* get_faiss_index has just returned to a call that began with no index
\* installed
FirstAccessed(t) ==
    /\ call[t].pc \in {"add125", "s147"}
    /\ call[t].pre.idx = 0

C18_WitnessDefault ==
    \E t \in callers :
        /\ FirstAccessed(t)
        /\ call[t].idx # 0
        /\ ~call[t].pre.file.exists
        /\ heap[call[t].idx].d = DefaultDim
        /\ file.exists

-----------------------------------------------------------------------------
(* Claims about the stored vectors *)

UnitLength(v) == Near(Isqrt(NormSqr(v)), ONE)
IsZero(v) == NormSqr(v) = 0

\* the vectors an index object or the index file counts as stored
Rows(x) == {x.codes[i] : i \in 1..x.ntotal}

\* no add is between making room for its batch and writing it
Settled == \A t \in callers : call[t].pc # "add132c"

\* C19 (as claimed): every stored vector has unit length, and so has every
\* query when it is compared.
C19_AllUnitLength ==
    /\ (Settled /\ faiss_index # 0) =>
          \A v \in Rows(heap[faiss_index]) : UnitLength(v)
    /\ \A t \in callers :
          call[t].pc = "s154" => UnitLength(call[t].arr[1])

\* C19 (amended): every stored vector has unit length or is the zero vector,
\* in the index and in the index file; a query is compared at unit length
\* unless it is the zero vector; every score returned for a slot is the cosine
\* similarity of the query and the vector stored there, which is 0.0 when
\* either is the zero vector.
C19_UnitLengthOrZero ==
    /\ (Settled /\ faiss_index # 0) =>
          \A v \in Rows(heap[faiss_index]) : UnitLength(v) \/ IsZero(v)
    /\ \A v \in Rows(file) : UnitLength(v) \/ IsZero(v)
    /\ \A t \in callers :
          /\ call[t].pc = "s154" =>
                \/ UnitLength(call[t].arr[1])
                \/ IsZero(call[t].arr[1]) /\ IsZero(call[t].arg[1])
          /\ (Done(t, "search") /\ call[t].res.status = "Pairs") =>
                \A j \in 1..Len(call[t].res.pairs) :
                    LET p == call[t].res.pairs[j]
                    IN  Stored(p) =>
                            Near(p[2],
                                 calculate_cosine_similarity(
                                     call[t].arg[1],
                                     heap[faiss_index].codes[p[1] + 1]))

\* C19 witness: a query that is not of unit length was compared with a vector
\* that was not of unit length when it was inserted, and with another one at
\* an angle to it
C19_Witness ==
    \E t \in callers :
        /\ Done(t, "search") /\ call[t].res.status = "Pairs"
        /\ call[t].arg[1] = Diag
        /\ \E i, j \in 1..Len(call[t].res.pairs) :
              /\ Near(call[t].res.pairs[i][2], ONE)
              /\ call[t].res.pairs[j][2] > Tol
              /\ call[t].res.pairs[j][2] < ONE - Tol

\* C20: all vectors of an index object have the object's dimension, and so
\* have those of the index file; an insert, accepted or rejected, leaves the
\* dimension of the index as it was when the insert began.
C20_OneDimension ==
    /\ \A i \in DOMAIN heap :
          heap[i].live =>
              \A j \in 1..Len(heap[i].codes) : Len(heap[i].codes[j]) = heap[i].d
    /\ \A j \in 1..Len(file.codes) : Len(file.codes[j]) = file.d
    /\ \A t \in callers :
          (InsertDone(t) /\ WasLoaded(t)) =>
              /\ faiss_index = call[t].pre.idx
              /\ heap[faiss_index].d = call[t].pre.d

\* C20 witness: a batch of another dimension was offered to an index that
\* holds two vectors, and rejected
C20_Witness ==
    \E t \in callers :
        /\ Done(t, "add") /\ WasLoaded(t)
        /\ call[t].res.status = "False"
        /\ ~AllDim(call[t].arg, call[t].pre.d)
        /\ MemCount >= 2
        /\ file.ntotal >= 2

\* a call that began on a Loaded index has returned
Returned(t) == call[t].pc = "done" /\ WasLoaded(t)

\* C21: a call on a Loaded index of count N leaves the index object in place
\* with a count of at least N and with slots 0..N-1 holding what they held;
\* a successful insert of b vectors puts the normalized batch into slots
\* N..N+b-1 in batch order, and any other call leaves the count at N.
C21_AppendOnly ==
    \A t \in callers :
        Returned(t) =>
            LET o == heap[faiss_index]
                N == call[t].pre.n
            IN  /\ faiss_index = call[t].pre.idx
                /\ o.ntotal >= N
                /\ Len(o.codes) = o.ntotal
                /\ \A i \in 1..N : o.codes[i] = call[t].pre.codes[i]
                /\ InsertOk(t) =>
                      /\ o.ntotal = N + Len(call[t].arg)
                      /\ \A i \in 1..Len(call[t].arg) :
                            o.codes[N + i] = NormalizeRow(call[t].arg[i])
                /\ ~InsertDone(t) => o.ntotal = N

\* C21 witness: the batch [1,0,0], [0,1,0] went behind a stored vector that
\* is neither of the two
C21_Witness ==
    \E t \in callers :
        /\ Returned(t) /\ InsertOk(t)
        /\ call[t].arg = <<E1, E2>>
        /\ call[t].pre.n = 1
        /\ call[t].pre.codes[1] \notin {E1, E2}

-----------------------------------------------------------------------------
(* Claims about scores *)

\* C22: calculate_cosine_similarity gives 0.0 when either vector has norm 0;
\* a search with a zero query scores 0.0 at every slot it returns, and a
\* zero vector that was inserted scores 0.0 for every query; in each case a
\* result is produced.
C22_ZeroScoresZero ==
    /\ rec.stage \in {"similarity", "searched"} =>
          /\ Len(rec.similarity) = Len(rec.batch)
          /\ \A i \in 1..Len(rec.batch) :
                (IsZero(rec.query) \/ IsZero(rec.batch[i]))
                    => rec.similarity[i] = 0
    /\ rec.stage = "searched" =>
          /\ Len(rec.pairs) = rec.k
          /\ \E j \in 1..Len(rec.pairs) : Stored(rec.pairs[j])
          /\ \A j \in 1..Len(rec.pairs) :
                LET p == rec.pairs[j]
                IN  (Stored(p) /\ (IsZero(rec.query)
                                      \/ IsZero(rec.batch[p[1] + 1])))
                        => p[2] = 0

\* C22 witness: a query with length was scored against a zero vector and a
\* vector with length, both returned by the search
C22_Witness ==
    /\ rec.stage = "searched"
    /\ rec.query = Diag
    /\ rec.batch = <<Zero, E1>>
    /\ Slots(rec.pairs) = {0, 1}

\* C22 witness: a zero query scored against vectors with length
C22_WitnessZeroQuery ==
    /\ rec.stage = "searched"
    /\ rec.query = Zero
    /\ rec.batch = <<Diag, E1>>
    /\ Slots(rec.pairs) = {0, 1}

-----------------------------------------------------------------------------
(* Claims about what failures leave behind *)

\* the vectors of the loaded index that the file did not hold when the call
\* began: batches whose write_index failed
Unpersisted(t) == call[t].pre.n - call[t].pre.file.ntotal

\* C23: a batch whose insert failed at write_index stays in the loaded index
\* behind the N vectors from before; the next successful insert of b2 vectors
\* writes the whole index, so the file then holds N + b_failed + b2 vectors,
\* the failed batch among them.
C23_FailedBatchDurable ==
    \A t \in callers :
        LET o == heap[faiss_index]
            N == call[t].pre.n
            b == Len(call[t].arg)
        IN  /\ PersistFailed(t) =>
                  /\ o.ntotal = N + b
                  /\ \A i \in 1..N : o.codes[i] = call[t].pre.codes[i]
                  /\ \A i \in 1..b :
                        o.codes[N + i] = NormalizeRow(call[t].arg[i])
            /\ (InsertOk(t) /\ WasLoaded(t)) =>
                  /\ file.exists
                  /\ file.ntotal = call[t].pre.file.ntotal + Unpersisted(t) + b
                  /\ file.codes = o.codes
                  /\ \A i \in 1..N : file.codes[i] = call[t].pre.codes[i]

\* C23 witness: the file held one vector, a failed insert had left a second
\* one in memory only, and a successful insert of a third made all three
\* durable
C23_Witness ==
    \E t \in callers :
        /\ InsertOk(t) /\ WasLoaded(t)
        /\ call[t].pre.file.exists
        /\ call[t].pre.file.ntotal = 1
        /\ Unpersisted(t) = 1
        /\ Len(call[t].arg) = 1
        /\ file.ntotal = 3
        /\ file.codes[2] = call[t].pre.codes[2]

\* the first index access after a cleanup has returned to its caller
Reaccessed(t) ==
    /\ call[t].prev.kind = "cleanup"
    /\ call[t].pc \in {"add125", "s147"}

\* a step that takes a cached model or the index back to None
Uncached ==
    \/ embedding_model # 0 /\ embedding_model' = 0
    \/ chat_model # 0 /\ chat_model' = 0
    \/ faiss_index # 0 /\ faiss_index' = 0

CreateWriteFailed(t) ==
    /\ Done(t, "add") \/ Done(t, "search")
    /\ call[t].pre.idx = 0
    /\ ~call[t].pre.file.exists
    /\ faiss_index # 0
    /\ ~file.exists

\* get_faiss_index has returned to a call that began with an index installed
\* and no file
AccessedUnwritten(t) ==
    /\ call[t].pc \in {"add125", "s147"}
    /\ call[t].pre.idx # 0
    /\ ~call[t].pre.file.exists

\* C25: when the write of the newly created index fails, the insert returns
\* False or the search no result, and the empty index stays installed with no
\* file; the next access returns that same index, creates nothing and still
\* has no file, and the search that made it returns result pairs when its
\* query has the index's dimension.
C25_CreatedIndexStays ==
    \A t \in callers :
        /\ CreateWriteFailed(t) =>
              /\ call[t].res.status =
                    IF call[t].op = "add" THEN "False" ELSE "None"
              /\ heap[faiss_index].live
              /\ heap[faiss_index].ntotal = 0
        /\ AccessedUnwritten(t) =>
              /\ call[t].idx = call[t].pre.idx
              /\ faiss_index = call[t].pre.idx
              /\ heap[faiss_index].ntotal = call[t].pre.n
              /\ ~file.exists
        /\ (Done(t, "search") /\ call[t].pre.idx # 0
               /\ ~call[t].pre.file.exists) =>
              /\ call[t].res.status =
                    IF Len(call[t].arg[1]) = call[t].pre.d THEN "Pairs"
                    ELSE "None"
              /\ faiss_index = call[t].pre.idx
              /\ ~file.exists

\* C25 witness: a search found the index that a failed create had left
\* installed, empty and without a file, and returned its k padding pairs
C25_Witness ==
    \E t \in callers :
        /\ Done(t, "search")
        /\ call[t].pre.idx # 0
        /\ ~call[t].pre.file.exists
        /\ call[t].pre.n = 0
        /\ call[t].k = 2
        /\ Len(call[t].res.pairs) = 2

\* C25 witness of the failing access itself
C25_WitnessFailed ==
    \E t \in callers : CreateWriteFailed(t) /\ call[t].op = "add"

-----------------------------------------------------------------------------
(* Claims about concurrent callers, continued *)

\* the batch of caller t is stored, in order, somewhere in index object o
Holds(o, t) ==
    \E off \in 0..o.ntotal :
        \A i \in 1..Len(call[t].arg) :
            /\ off + i <= Len(o.codes)
            /\ off + i <= o.ntotal
            /\ o.codes[off + i] = NormalizeRow(call[t].arg[i])

\* nobody else is inside a call
Quiet(t) == \A u \in callers \ {t} : call[u].pc = "idle"

\* C26 (as claimed): once an insert has returned True, the index a search
\* would run against, the installed one, contains the inserted batch,
\* whatever the interleaving of first accesses and inserts was (no
\* cleanup_models is ever called here).
C26_SuccessVisible ==
    \A t \in callers :
        (Done(t, "add") /\ call[t].res.status = "True" /\ Quiet(t)) =>
            /\ faiss_index # 0
            /\ Holds(heap[faiss_index], t)

-----------------------------------------------------------------------------
(* Claims about the embedding model *)

\* a /embeddings request repeated after one whose model load failed
Retried(t) ==
    /\ call[t].op = "embed"
    /\ call[t].prev.kind = "embed"
    /\ call[t].prev.status = "LoadFailed"

\* caller t leaves the constructor call of get_embedding_model
LoadAttempted(t) == call[t].pc = "gem25" /\ call'[t].pc # "gem25"

\* C27: a load that fails leaves _embedding_model None and returns None; a
\* call that finds it None attempts the load, whatever failed before; a load
\* attempted while the model is loadable stores and returns the model, and
\* generate_embeddings then returns the array unless encode itself raises.
C27_FailedLoadNotCached ==
    /\ [][\A t \in callers :
            /\ (call[t].pc = "gem22" /\ call'[t].pc # "gem22"
                   /\ embedding_model = 0) => call'[t].pc = "gem25"
            /\ LoadAttempted(t) =>
                  IF modelLoadable
                  THEN /\ embedding_model' # 0
                       /\ call'[t].pc = "gem34"
                  ELSE /\ embedding_model' = 0
                       /\ call'[t].em = 0
                       /\ call'[t].pc = Head(call[t].ret)]_vars
    /\ [](\A t \in callers :
            /\ call[t].pc = "gem34" => embedding_model # 0
            /\ call[t].pc = "gen112" => call[t].em = embedding_model
            /\ (Done(t, "embed") /\ call[t].res.status = "503"
                   /\ embedding_model # 0) => loads >= 1
            /\ (Done(t, "embed") /\ call[t].res.status = "Embeddings") =>
                  /\ embedding_model # 0
                  /\ call[t].arg = EncodeAll(call[t].texts))

\* C27 witness: a request failed because the model could not be loaded, and
\* the same request, repeated once the model was loadable, was answered with
\* embeddings
C27_Witness ==
    \E t \in callers :
        /\ Retried(t)
        /\ call[t].pc = "done"
        /\ call[t].res.status = "Embeddings"
        /\ Len(call[t].texts) = 2

-----------------------------------------------------------------------------
(* Claims about the dimension *)

\* C28: once the index file exists it keeps existing with the same
\* dimension, and every index installed while it exists has that dimension:
\* inserts, searches and the reload after cleanup_models neither rewrite the
\* file with another dimension nor install an index of another one, also
\* when the file was created with the default 384 and the model has another
\* dimension.
C28_DimensionFixed ==
    /\ [][file.exists => file'.exists /\ file'.d = file.d]_vars
    /\ []((file.exists /\ faiss_index # 0) =>
            /\ heap[faiss_index].live
            /\ heap[faiss_index].d = file.d)
    /\ [](\A t \in callers :
            (call[t].pc = "done" /\ call[t].pre.file.exists) =>
                /\ file.d = call[t].pre.file.d
                /\ faiss_index # 0 => heap[faiss_index].d = file.d)

\* C28 witness: an index created with the default dimension while no model
\* could be loaded was read back from its file after a cleanup, with a model
\* of another dimension loaded by then, and an insert of the model's
\* dimension was refused
C28_Witness ==
    \E t \in callers :
        /\ Done(t, "add")
        /\ call[t].pre.idx = 0
        /\ call[t].pre.file.exists
        /\ call[t].pre.file.d = DefaultDim
        /\ embedding_model # 0
        /\ ModelDim # DefaultDim
        /\ call[t].arg # <<>>
        /\ AllDim(call[t].arg, ModelDim)
        /\ call[t].res.status = "False"
        /\ heap[faiss_index].d = DefaultDim

-----------------------------------------------------------------------------
(* Claims about recommendations, continued *)

\* the ids of the items of a list, in order
IdsOf(list) == [i \in 1..Len(list) |-> list[i].jobId]

\* C29 (as claimed): the ranked list has exactly min(limit, |jobs|) items,
\* which are the first min(limit, |jobs|) jobs of the dataset, each once, by
\* descending fitScore; no job at a position beyond limit is in it.
C29_FirstLimitJobs ==
    Ranked =>
        LET n == Min(rec.limit, Len(rec.jobs))
        IN  /\ Len(rec.ranked) = n
            /\ Len(rec.scored) = n
            /\ \A i \in 1..n : rec.scored[i].jobId = rec.jobs[i].id
            /\ \A i \in 1..n :
                  Cardinality({j \in 1..Len(rec.ranked) :
                                  rec.ranked[j].jobId = rec.jobs[i].id}) = 1
            /\ \A i \in 1..Len(rec.jobs) :
                  i > rec.limit =>
                      \A j \in 1..Len(rec.ranked) :
                          rec.ranked[j].jobId # rec.jobs[i].id
            /\ \A i, j \in 1..Len(rec.ranked) :
                  i < j => rec.ranked[i].fitScore >= rec.ranked[j].fitScore

\* what C29 says, for the limits that are not negative
C29_NonNegativeLimit == rec.limit >= 0 => C29_FirstLimitJobs

-----------------------------------------------------------------------------
(* Claims about similar jobs, continued *)

\* the entries of a list, as a set
Entries(list) == {list[j] : j \in 1..Len(list)}

\* the position of job id in MOCK_JOBS_DB
JobAt(id) == CHOOSE i \in 1..Len(MOCK_JOBS_DB) : MOCK_JOBS_DB[i].id = id

\* C30: the similar jobs returned never include the reference job, hold no
\* job twice, are at most limit, are min(limit, number of embedded other
\* jobs) of the scored entries, none of them scoring lower than an entry
\* left out, and are in descending similarityScore order; each score is the
\* cosine similarity of the job's vector and the reference's.
C30_TopSimilar ==
    \A t \in callers :
        Answered(t) =>
            LET out == call[t].out
                found == call[t].found
            IN  /\ call[t].jobId \notin JobIdsOf(out)
                /\ Cardinality(JobIdsOf(out)) = Len(out)
                /\ Len(out) <= call[t].k
                /\ Len(out) = Min(call[t].k, Len(found))
                /\ Entries(out) \subseteq Entries(found)
                /\ JobIdsOf(found) = Candidates(t) \ call[t].skipped
                /\ \A x \in Entries(out) :
                      /\ x.similarityScore =
                            calculate_cosine_similarity(
                                Encode(MOCK_JOBS_DB[JobAt(call[t].jobId)].text),
                                Encode(MOCK_JOBS_DB[JobAt(x.jobId)].text))
                      /\ \A y \in Entries(found) \ Entries(out) :
                            x.similarityScore >= y.similarityScore
                /\ \A i, j \in 1..Len(out) :
                      i < j => out[i].similarityScore >= out[j].similarityScore

\* C30 witness: four other jobs were embedded and scored, the limit was two,
\* and the two returned score differently and higher than one left out
C30_Witness ==
    \E t \in callers :
        /\ Answered(t)
        /\ call[t].k = 2
        /\ Len(call[t].found) = 4
        /\ call[t].found[1].similarityScore < call[t].found[3].similarityScore
        /\ call[t].out[1].similarityScore > call[t].out[2].similarityScore
        /\ \E y \in Entries(call[t].found) \ Entries(call[t].out) :
              y.similarityScore < call[t].out[2].similarityScore

====
